---- MODULE Spec2Model ----
(***************************************************************************)
(* Model of app.py (NeuroMetabolic Validation): the KEGG flat-file parser  *)
(* get_kegg_genes, the STRING client get_string_interactions and the       *)
(* module-level pipeline that builds and renders the interaction network.  *)
(*                                                                         *)
(* A Python str is a sequence of one-character strings.  response.text is  *)
(* represented by the list of its lines (text.split('\n')).                *)
(***************************************************************************)
EXTENDS Integers, Sequences, FiniteSets, TLC

VARIABLES
    \* get_kegg_genes
    pc, status_code, lines, idx, is_gene_section, line, genes, emitted,
    \* module-level pipeline
    ppc, kegg_text, string_reply, uploaded_file, confidence,
    df_kegg, gene_list, interactions, G_nodes, G_logfc, G_edges,
    edges_found, k, shown

parserVars == <<pc, status_code, lines, idx, is_gene_section, line, genes, emitted>>
pipeVars == <<ppc, kegg_text, string_reply, uploaded_file, confidence,
              df_kegg, gene_list, interactions, G_nodes, G_logfc, G_edges,
              edges_found, k, shown>>
vars == <<parserVars, pipeVars>>

----------------------------------------------------------------------------
(* Bounds of the model *)

MaxLines == 3
MaxRecords == 2
MaxGenes == 51

\* line 70: [:50]
GeneCap == 50

----------------------------------------------------------------------------
(* Python str operations used by the parser *)

Whitespace == {" ", "\t"}

GENE == <<"G","E","N","E">>
COMPOUND == <<"C","O","M","P","O","U","N","D">>
REFERENCE == <<"R","E","F","E","R","E","N","C","E">>
SemiSpace == <<";", " ">>

\* s.startswith(p)
StartsWith(s, p) == Len(s) >= Len(p) /\ SubSeq(s, 1, Len(p)) = p

\* c in s, for a one-character c
Contains(s, c) == \E i \in 1..Len(s) : s[i] = c

\* s.replace(old, ''): every non-overlapping occurrence, left to right
RECURSIVE Replace(_, _)
Replace(s, old) ==
    IF Len(s) = 0 THEN <<>>
    ELSE IF StartsWith(s, old) THEN Replace(SubSeq(s, Len(old) + 1, Len(s)), old)
    ELSE <<Head(s)>> \o Replace(Tail(s), old)

RECURSIVE LStrip(_)
LStrip(s) == IF Len(s) > 0 /\ Head(s) \in Whitespace THEN LStrip(Tail(s)) ELSE s

RECURSIVE RStrip(_)
RStrip(s) ==
    IF Len(s) > 0 /\ s[Len(s)] \in Whitespace THEN RStrip(SubSeq(s, 1, Len(s) - 1)) ELSE s

\* s.strip()
Strip(s) == RStrip(LStrip(s))

\* s.split(sep): every occurrence of sep separates two parts
RECURSIVE SplitAcc(_, _, _)
SplitAcc(s, sep, cur) ==
    IF Len(s) = 0 THEN <<cur>>
    ELSE IF StartsWith(s, sep)
         THEN <<cur>> \o SplitAcc(SubSeq(s, Len(sep) + 1, Len(s)), sep, <<>>)
         ELSE SplitAcc(Tail(s), sep, Append(cur, Head(s)))

Split(s, sep) == SplitAcc(s, sep, <<>>)

RECURSIVE TakeToken(_)
TakeToken(s) ==
    IF Len(s) = 0 \/ Head(s) \in Whitespace THEN <<>> ELSE <<Head(s)>> \o TakeToken(Tail(s))

\* s.split(None, 1): leading whitespace dropped, one split at the first run
\* of whitespace, the remainder kept as it is
SplitWs1(s) ==
    LET body == LStrip(s)
        tok == TakeToken(body)
        rest == LStrip(SubSeq(body, Len(tok) + 1, Len(body)))
    IN  IF Len(body) = 0 THEN <<>>
        ELSE IF Len(rest) = 0 THEN <<tok>>
        ELSE <<tok, rest>>

UpperChar(c) ==
    CASE c = "a" -> "A" [] c = "b" -> "B" [] c = "c" -> "C" [] c = "d" -> "D"
      [] c = "e" -> "E" [] c = "f" -> "F" [] c = "g" -> "G" [] c = "h" -> "H"
      [] c = "i" -> "I" [] c = "j" -> "J" [] c = "k" -> "K" [] c = "l" -> "L"
      [] c = "m" -> "M" [] c = "n" -> "N" [] c = "o" -> "O" [] c = "p" -> "P"
      [] c = "q" -> "Q" [] c = "r" -> "R" [] c = "s" -> "S" [] c = "t" -> "T"
      [] c = "u" -> "U" [] c = "v" -> "V" [] c = "w" -> "W" [] c = "x" -> "X"
      [] c = "y" -> "Y" [] c = "z" -> "Z" [] OTHER -> c

\* s.upper()
Upper(s) == [i \in 1..Len(s) |-> UpperChar(s[i])]

----------------------------------------------------------------------------
(* get_kegg_genes: the body of the loop over the lines *)

\* line 27: line.replace('GENE', '').strip()
GeneRewrite(l) == Strip(Replace(l, GENE))

\* SectionAfter with the REFERENCE test of line 28 left out
SectionAfterNoReference(flag, l) ==
    IF StartsWith(l, GENE) THEN TRUE
    ELSE IF StartsWith(l, COMPOUND) THEN FALSE
    ELSE flag

\* lines 25-29: the section flag after the line's label is seen
SectionAfter(flag, l) ==
    IF StartsWith(l, GENE) THEN TRUE
    ELSE IF StartsWith(l, COMPOUND) \/ StartsWith(l, REFERENCE) THEN FALSE
    ELSE flag

\* lines 25-27: the value of `line` after the label is seen
LineAfter(l) == IF StartsWith(l, GENE) THEN GeneRewrite(l) ELSE l

\* line 30
IsCandidate(flag, l) == flag /\ Len(l) > 0 /\ Contains(l, ";")

\* line 31
Parts(l) == Split(l, SemiSpace)

\* line 32
IdSym(l) == SplitWs1(Parts(l)[1])

\* CleanSymbol without the split(',') of line 34: the whole alias list
CleanSymbolAllAliases(id_sym) == Upper(Strip(id_sym[2]))

\* line 34
CleanSymbol(id_sym) == Upper(Strip(Split(id_sym[2], <<",">>)[1]))

\* line 35: parts[1].strip()
DescriptionOf(parts) == Strip(parts[2])

\* lines 25-35 for one line: the new flag, the rewritten line and the outcome
\* ("none": nothing appended, "entry": one entry appended, "raise":
\* IndexError from parts[1])
ParseLine(flag, raw) ==
    LET f == SectionAfter(flag, raw)
        l == LineAfter(raw)
    IN  IF ~IsCandidate(f, l) THEN [flag |-> f, line |-> l, out |-> "none"]
        ELSE IF Len(IdSym(l)) < 2 THEN [flag |-> f, line |-> l, out |-> "none"]
        ELSE IF Len(Parts(l)) < 2 THEN [flag |-> f, line |-> l, out |-> "raise"]
        ELSE [flag |-> f, line |-> l, out |-> "entry",
              entry |-> [Symbol |-> CleanSymbol(IdSym(l)),
                         Description |-> DescriptionOf(Parts(l))]]

----------------------------------------------------------------------------
(* Input texts *)

Body1 == <<"1"," ","A",";"," ","x">>
Body2 == <<" "," ","2"," ","b",","," ","C",";"," ","y">>
Body3 == <<"3"," ","D",";","z">>
Body4 == <<"4",";"," ","w">>
Body5 == <<"5"," ","E">>
Body6 == <<>>
Body7 == <<"6"," ","F",";"," ","u",";"," ","v">>
Body8 == <<"7",";","8"," ","H",";"," ","t">>
Body9 == <<"9"," ","G","E","N","E","X",";"," ","s">>

DataLines == {Body1, Body2, Body3, Body4, Body5, Body6, Body7, Body8, Body9}

GenePrefix == GENE \o <<" ", " ">>

CompoundLine == COMPOUND \o <<" "," ","C","1"," "," ","g">>
ReferenceLine == REFERENCE \o <<" "," ","P","M","I","D",":","1">>

\* the data lines that also occur with the GENE label in front
LabelledLines == {Body1, Body2, Body9}

LineSet == DataLines \cup {GenePrefix \o b : b \in LabelledLines}
             \cup {CompoundLine, ReferenceLine}

\* the end-to-end example of the specification
ExLine1 == <<"G","E","N","E"," "," "," "," "," "," "," "," ","1","2","3","4"," "," ","A","B","C","1",","," ","A","B","C","2",";"," ","a","l","p","h","a"," ","s","u","b","u","n","i","t">>
ExLine2 == <<"5","6","7","8"," "," ","D","E","F","1",";"," ","b","e","t","a"," ","s","u","b","u","n","i","t">>
ExLine3 == <<"C","O","M","P","O","U","N","D"," "," "," "," ","C","0","0","0","3","1"," "," ","D","-","g","l","u","c","o","s","e">>
ExLine4 == <<"G","E","N","E"," "," "," "," "," "," "," "," ","9","9","9","9"," "," ","G","H","I","1",";"," ","i","g","n","o","r","e","d",","," ","s","h","o","u","l","d"," ","n","o","t"," ","a","p","p","e","a","r">>
ExampleText == <<ExLine1, ExLine2, ExLine3, ExLine4>>

\* the single-line example of the specification
SymLine == <<"G","E","N","E"," "," ","1","2","3","4"," "," ","S","Y","M","1",","," ","S","Y","M","2",";"," ","S","o","m","e"," ","d","e","s","c","r","i","p","t","i","o","n">>

Texts == UNION {[1..n -> LineSet] : n \in 0..MaxLines}
           \cup {ExampleText, <<SymLine>>}

----------------------------------------------------------------------------
(* get_kegg_genes as a state machine: one step per line *)

PipeIdle ==
    /\ ppc = "idle" /\ kegg_text = <<>> /\ string_reply = [kind |-> "exception"]
    /\ uploaded_file = [kind |-> "none"] /\ confidence = 0
    /\ df_kegg = <<>> /\ gene_list = <<>> /\ interactions = <<>>
    /\ G_nodes = {} /\ G_logfc = <<>> /\ G_edges = {}
    /\ edges_found = 0 /\ k = 0 /\ shown = [edges |-> 0, nodes |-> 0]

\* lines 18-23: the response is in, nothing is parsed yet
Init ==
    /\ \E t \in Texts, s \in {200, 404} :
          /\ s = 404 => t = <<>>
          /\ status_code = s
          /\ lines = t
    /\ pc = "fetched"
    /\ idx = 0
    /\ is_gene_section = FALSE
    /\ line = <<>>
    /\ genes = <<>>
    /\ emitted = "start"
    /\ PipeIdle

\* line 21, status 200: lines 22-23
EnterLoop ==
    /\ pc = "fetched" /\ status_code = 200
    /\ pc' = "loop"
    /\ UNCHANGED <<status_code, lines, idx, is_gene_section, line, genes, emitted>>
    /\ UNCHANGED pipeVars

\* line 21, any other status: straight to the return with no genes
SkipLoop ==
    /\ pc = "fetched" /\ status_code # 200
    /\ pc' = "returned"
    /\ UNCHANGED <<status_code, lines, idx, is_gene_section, line, genes, emitted>>
    /\ UNCHANGED pipeVars

\* lines 24-35: one iteration
LoopStep ==
    /\ pc = "loop" /\ idx < Len(lines)
    /\ LET r == ParseLine(is_gene_section, lines[idx + 1])
       IN  /\ idx' = idx + 1
           /\ is_gene_section' = r.flag
           /\ line' = r.line
           /\ emitted' = r.out
           /\ genes' = IF r.out = "entry" THEN Append(genes, r.entry) ELSE genes
           /\ pc' = IF r.out = "raise" THEN "raised" ELSE "loop"
    /\ UNCHANGED <<status_code, lines>>
    /\ UNCHANGED pipeVars

\* line 36
Return ==
    /\ pc = "loop" /\ idx = Len(lines)
    /\ pc' = "returned"
    /\ UNCHANGED <<status_code, lines, idx, is_gene_section, line, genes, emitted>>
    /\ UNCHANGED pipeVars

Next == EnterLoop \/ SkipLoop \/ LoopStep \/ Return

Spec == Init /\ [][Next]_vars

----------------------------------------------------------------------------
(* get_kegg_genes as one call (lines 17-36) *)

RECURSIVE ParseFrom(_, _, _)
ParseFrom(ls, flag, acc) ==
    IF Len(ls) = 0 THEN [raised |-> FALSE, genes |-> acc]
    ELSE LET r == ParseLine(flag, Head(ls))
         IN  IF r.out = "raise" THEN [raised |-> TRUE, genes |-> acc]
             ELSE ParseFrom(Tail(ls), r.flag,
                            IF r.out = "entry" THEN Append(acc, r.entry) ELSE acc)

get_kegg_genes(status, text) ==
    IF status = 200 THEN ParseFrom(text, FALSE, <<>>)
    ELSE [raised |-> FALSE, genes |-> <<>>]

----------------------------------------------------------------------------
(* pandas / networkx operations used by the pipeline *)

\* Series.unique().tolist(): first occurrences, in order
RECURSIVE Unique(_, _)
Unique(s, seen) ==
    IF Len(s) = 0 THEN <<>>
    ELSE IF Head(s) \in seen THEN Unique(Tail(s), seen)
    ELSE <<Head(s)>> \o Unique(Tail(s), seen \cup {Head(s)})

\* s[:n]
Take(s, n) == SubSeq(s, 1, IF Len(s) < n THEN Len(s) ELSE n)

Range(s) == {s[i] : i \in 1..Len(s)}

SymbolsOf(df) == [i \in 1..Len(df) |-> df[i].Symbol]

\* line 70
GeneListOf(df) == Take(Unique(SymbolsOf(df), {}), GeneCap)

\* lines 77-78: the overlay's columns normalised
NormGeo(rows) ==
    [i \in 1..Len(rows) |->
        [Symbol |-> Upper(Strip(rows[i].Symbol)),
         LogFC |-> IF rows[i].numeric THEN rows[i].LogFC ELSE 0]]

\* lines 79-80: left merge on Symbol, one row per match, 0 where none
RECURSIVE MergeRow(_, _)
MergeRow(row, geo) ==
    IF Len(geo) = 0 THEN <<>>
    ELSE (IF Head(geo).Symbol = row.Symbol
          THEN <<[Symbol |-> row.Symbol, Description |-> row.Description,
                  LogFC |-> Head(geo).LogFC]>>
          ELSE <<>>) \o MergeRow(row, Tail(geo))

RECURSIVE MergeLeft(_, _)
MergeLeft(df, geo) ==
    IF Len(df) = 0 THEN <<>>
    ELSE (IF MergeRow(Head(df), geo) = <<>>
          THEN <<[Symbol |-> Head(df).Symbol, Description |-> Head(df).Description,
                  LogFC |-> 0]>>
          ELSE MergeRow(Head(df), geo)) \o MergeLeft(Tail(df), geo)

\* line 82
WithZeroLogFC(df) ==
    [i \in 1..Len(df) |->
        [Symbol |-> df[i].Symbol, Description |-> df[i].Description, LogFC |-> 0]]

\* EdgeAccepted without the membership test of line 95
EdgeAcceptedNoNodeTest(edge, nodes, conf) == edge.score >= conf

\* lines 93-95: the record passes the threshold and both names are nodes.
\* STRING scores are fractions of 1; a score is kept here in thousandths, so
\* score >= confidence / 1000 reads score >= confidence.
EdgeAccepted(edge, nodes, conf) ==
    /\ edge.score >= conf
    /\ Upper(edge.preferredName_A) \in nodes
    /\ Upper(edge.preferredName_B) \in nodes

\* G.degree(n): a self-loop counts twice
Degree(n, edges) ==
    Cardinality({e \in edges : n \in e /\ e # {n}}) + (IF {n} \in edges THEN 2 ELSE 0)

----------------------------------------------------------------------------
(* Inputs of the pipeline *)

Digit == <<"0","1","2","3","4","5","6","7","8","9">>
TwoDigits(n) == <<Digit[(n \div 10) + 1], Digit[(n % 10) + 1]>>
BigSymbol(n) == <<"S">> \o TwoDigits(n)
BigLine(n) == (IF n = 1 THEN GenePrefix ELSE <<" ", " ">>)
                \o TwoDigits(n) \o <<" ">> \o BigSymbol(n) \o <<";", " ", "d">>
BigText(n) == [i \in 1..n |-> BigLine(i)]

ShortTexts ==
    { <<>>,
      <<GenePrefix \o Body1>>,
      <<GenePrefix \o Body1, Body2, Body7, Body1>>,
      <<GenePrefix \o Body1, Body3>> }

LongTexts == {BigText(n) : n \in GeneCap..MaxGenes}

NameA == <<"A">>
NameB == <<"B">>
Nameb == <<"b">>
NameZ == <<"Z">>

Rec(a, b, s, ok) ==
    [preferredName_A |-> a, preferredName_B |-> b, score |-> s, has_score |-> ok]

\* records about the genes of the short texts
RecordSet ==
    { Rec(NameA, Nameb, 900, TRUE),
      Rec(NameB, NameA, 600, TRUE),
      Rec(NameA, NameA, 700, TRUE),
      Rec(NameA, NameZ, 999, TRUE),
      Rec(NameA, NameB, 400, TRUE),
      Rec(NameA, NameB, 0, FALSE) }

\* records about the genes of the long texts: one that reaches past the cap
\* of gene_list, one whose score is the default threshold
BigRecordSet ==
    { Rec(BigSymbol(1), BigSymbol(GeneCap + 1), 900, TRUE),
      Rec(BigSymbol(1), <<"s","0","2">>, 555, TRUE) }

RecordLists(rs) == UNION {[1..n -> rs] : n \in 0..MaxRecords}

\* what requests.post(...).json() does: raises, or gives a parsed body
StringReplies(rs) ==
    { [kind |-> "exception"], [kind |-> "notjson"], [kind |-> "notlist"] }
    \cup {[kind |-> "list", data |-> d] : d \in RecordLists(rs)}

GeoRow(sym, num, v) == [Symbol |-> sym, numeric |-> num, LogFC |-> v]

CsvA == [kind |-> "csv", rows |-> <<GeoRow(<<" ", "a">>, TRUE, 2), GeoRow(NameA, FALSE, 0)>>]
CsvB == [kind |-> "csv", rows |-> <<GeoRow(Nameb, TRUE, -2)>>]

Uploads ==
    { [kind |-> "none"], [kind |-> "unreadable"], [kind |-> "no_symbol"],
      [kind |-> "no_logfc"], CsvA, CsvB }

\* line 58: the slider's ends and its default
Confidences == {0, 555, 1000}

\* the runs: every combination over the short texts, and the long texts
\* with the records about their genes
PipeInputs ==
    {[text |-> t, status |-> 200, reply |-> r, upload |-> u, conf |-> c] :
        t \in ShortTexts, r \in StringReplies(RecordSet), u \in Uploads, c \in Confidences}
    \cup
    {[text |-> <<>>, status |-> 404, reply |-> r, upload |-> u, conf |-> c] :
        r \in {[kind |-> "exception"]}, u \in Uploads, c \in Confidences}
    \cup
    {[text |-> t, status |-> 200, reply |-> r, upload |-> u, conf |-> c] :
        t \in LongTexts, r \in StringReplies(BigRecordSet),
        u \in {[kind |-> "none"], CsvA}, c \in {555, 1000}}

----------------------------------------------------------------------------
(* The module-level pipeline, lines 66-170 *)

ParserIdle ==
    /\ pc = "idle" /\ lines = <<>> /\ idx = 0 /\ is_gene_section = FALSE
    /\ line = <<>> /\ genes = <<>> /\ emitted = "start"

PipeInit ==
    /\ \E inp \in PipeInputs :
          /\ status_code = inp.status
          /\ kegg_text = inp.text
          /\ string_reply = inp.reply
          /\ uploaded_file = inp.upload
          /\ confidence = inp.conf
    /\ ppc = "start"
    /\ df_kegg = <<>> /\ gene_list = <<>> /\ interactions = <<>>
    /\ G_nodes = {} /\ G_logfc = <<>> /\ G_edges = {}
    /\ edges_found = 0 /\ k = 0 /\ shown = [edges |-> 0, nodes |-> 0]
    /\ ParserIdle

\* line 67
FetchKegg ==
    /\ ppc = "start"
    /\ LET r == get_kegg_genes(status_code, kegg_text)
       IN  IF r.raised
           THEN ppc' = "raised_kegg" /\ UNCHANGED df_kegg
           ELSE ppc' = "fetched" /\ df_kegg' = r.genes
    /\ UNCHANGED <<kegg_text, string_reply, uploaded_file, confidence, gene_list,
                   interactions, G_nodes, G_logfc, G_edges, edges_found, k, shown>>
    /\ UNCHANGED parserVars

\* lines 69, 169-170: the empty frame ends the run in st.error
FetchFailed ==
    /\ ppc = "fetched" /\ Len(df_kegg) = 0
    /\ ppc' = "fetch_failed"
    /\ UNCHANGED <<kegg_text, string_reply, uploaded_file, confidence, df_kegg,
                   gene_list, interactions, G_nodes, G_logfc, G_edges, edges_found,
                   k, shown>>
    /\ UNCHANGED parserVars

\* lines 69-70
BuildGeneList ==
    /\ ppc = "fetched" /\ Len(df_kegg) > 0
    /\ gene_list' = GeneListOf(df_kegg)
    /\ ppc' = "interact"
    /\ UNCHANGED <<kegg_text, string_reply, uploaded_file, confidence, df_kegg,
                   interactions, G_nodes, G_logfc, G_edges, edges_found, k, shown>>
    /\ UNCHANGED parserVars

\* lines 38-46
get_string_interactions(reply) == IF reply.kind = "list" THEN reply.data ELSE <<>>

\* lines 72-73
FetchInteractions ==
    /\ ppc = "interact"
    /\ interactions' = get_string_interactions(string_reply)
    /\ ppc' = "overlay"
    /\ UNCHANGED <<kegg_text, string_reply, uploaded_file, confidence, df_kegg,
                   gene_list, G_nodes, G_logfc, G_edges, edges_found, k, shown>>
    /\ UNCHANGED parserVars

\* lines 75-80: read_csv, the two column reads and the merge; nothing
\* catches what they raise
OverlayMerge ==
    /\ ppc = "overlay" /\ uploaded_file.kind # "none"
    /\ IF uploaded_file.kind = "csv"
       THEN /\ df_kegg' = MergeLeft(df_kegg, NormGeo(uploaded_file.rows))
            /\ ppc' = "network"
       ELSE /\ ppc' = "raised_overlay"
            /\ UNCHANGED df_kegg
    /\ UNCHANGED <<kegg_text, string_reply, uploaded_file, confidence, gene_list,
                   interactions, G_nodes, G_logfc, G_edges, edges_found, k, shown>>
    /\ UNCHANGED parserVars

\* lines 81-82
OverlayDefault ==
    /\ ppc = "overlay" /\ uploaded_file.kind = "none"
    /\ df_kegg' = WithZeroLogFC(df_kegg)
    /\ ppc' = "network"
    /\ UNCHANGED <<kegg_text, string_reply, uploaded_file, confidence, gene_list,
                   interactions, G_nodes, G_logfc, G_edges, edges_found, k, shown>>
    /\ UNCHANGED parserVars

\* lines 85-90: a node per row whose symbol is in gene_list; a later row of
\* the same symbol overwrites the logfc attribute
BuildNodes ==
    /\ ppc = "network"
    /\ G_nodes' = {df_kegg[i].Symbol : i \in {j \in 1..Len(df_kegg) :
                                              df_kegg[j].Symbol \in Range(gene_list)}}
    /\ G_logfc' = [n \in G_nodes' |->
                     LET last == CHOOSE i \in 1..Len(df_kegg) :
                                    /\ df_kegg[i].Symbol = n
                                    /\ \A j \in (i + 1)..Len(df_kegg) : df_kegg[j].Symbol # n
                     IN  df_kegg[last].LogFC]
    /\ G_edges' = {}
    /\ edges_found' = 0
    /\ k' = 0
    /\ ppc' = "edges"
    /\ UNCHANGED <<kegg_text, string_reply, uploaded_file, confidence, df_kegg,
                   gene_list, interactions, shown>>
    /\ UNCHANGED parserVars

\* lines 91-97: one interaction record.  edge['score'] raises KeyError on a
\* record without a score; G.add_edge adds its endpoints as nodes when they
\* are not nodes yet.
EdgeStep ==
    /\ ppc = "edges" /\ k < Len(interactions)
    /\ LET edge == interactions[k + 1]
           n_a == Upper(edge.preferredName_A)
           n_b == Upper(edge.preferredName_B)
       IN  IF ~edge.has_score
           THEN /\ ppc' = "raised_edge"
                /\ UNCHANGED <<G_nodes, G_logfc, G_edges, edges_found, k>>
           ELSE /\ ppc' = "edges"
                /\ k' = k + 1
                /\ IF EdgeAccepted(edge, G_nodes, confidence)
                   THEN /\ G_nodes' = G_nodes \cup {n_a, n_b}
                        /\ G_edges' = G_edges \cup {{n_a, n_b}}
                        /\ edges_found' = edges_found + 1
                   ELSE UNCHANGED <<G_nodes, G_edges, edges_found>>
                /\ UNCHANGED G_logfc
    /\ UNCHANGED <<kegg_text, string_reply, uploaded_file, confidence, df_kegg,
                   gene_list, interactions, shown>>
    /\ UNCHANGED parserVars

\* lines 99-140: the figure and the metrics column
Render ==
    /\ ppc = "edges" /\ k = Len(interactions)
    /\ shown' = [edges |-> edges_found,
                 nodes |-> Cardinality(G_nodes),
                 degrees |-> [n \in G_nodes |-> Degree(n, G_edges)]]
    /\ ppc' = "rendered"
    /\ UNCHANGED <<kegg_text, string_reply, uploaded_file, confidence, df_kegg,
                   gene_list, interactions, G_nodes, G_logfc, G_edges, edges_found, k>>
    /\ UNCHANGED parserVars

PipeNext ==
    \/ FetchKegg \/ FetchFailed \/ BuildGeneList \/ FetchInteractions
    \/ OverlayMerge \/ OverlayDefault \/ BuildNodes \/ EdgeStep \/ Render

PipeSpec == PipeInit /\ [][PipeNext]_vars

----------------------------------------------------------------------------
(* Vocabulary of the properties, defined on positions of a string and not  *)
(* by the parser's operators                                               *)

Matches(s, sep, i) == i + Len(sep) - 1 <= Len(s) /\ SubSeq(s, i, i + Len(sep) - 1) = sep

\* position of the first occurrence of sep in s, 0 when there is none
FirstIndexOf(s, sep) ==
    IF \E i \in 1..Len(s) : Matches(s, sep, i)
    THEN CHOOSE i \in 1..Len(s) :
            Matches(s, sep, i) /\ \A j \in 1..(i - 1) : ~Matches(s, sep, j)
    ELSE 0

\* what precedes the first sep (all of s when there is none)
Before(s, sep) ==
    IF FirstIndexOf(s, sep) = 0 THEN s ELSE SubSeq(s, 1, FirstIndexOf(s, sep) - 1)

\* what follows the first sep
After(s, sep) ==
    IF FirstIndexOf(s, sep) = 0 THEN <<>>
    ELSE SubSeq(s, FirstIndexOf(s, sep) + Len(sep), Len(s))

NonBlank(s) == {i \in 1..Len(s) : s[i] \notin Whitespace}

Min(S) == CHOOSE x \in S : \A y \in S : x <= y
Max(S) == CHOOSE x \in S : \A y \in S : x >= y

\* s without its leading and trailing whitespace
Trim(s) == IF NonBlank(s) = {} THEN <<>> ELSE SubSeq(s, Min(NonBlank(s)), Max(NonBlank(s)))

\* where the whitespace-delimited tokens of s start
TokenStarts(s) == {i \in NonBlank(s) : i = 1 \/ s[i - 1] \in Whitespace}

TokenCount(s) == Cardinality(TokenStarts(s))

\* the text of s from its second token on
AfterFirstToken(s) ==
    IF TokenCount(s) < 2 THEN <<>>
    ELSE SubSeq(s, Min(TokenStarts(s) \ {Min(TokenStarts(s))}), Len(s))

\* a line without its leading GENE label and the whitespace after it
DataPart(raw) ==
    IF StartsWith(raw, GENE) THEN
        LET rest == SubSeq(raw, Len(GENE) + 1, Len(raw))
        IN  IF NonBlank(rest) = {} THEN <<>> ELSE SubSeq(rest, Min(NonBlank(rest)), Len(rest))
    ELSE raw

Closes(l) == StartsWith(l, COMPOUND) \/ StartsWith(l, REFERENCE)

\* the loop has processed lines[idx]
Stepped == pc \in {"loop", "raised", "returned"} /\ idx > 0

LastEntry == genes[Len(genes)]

Str_SYM1 == <<"S","Y","M","1">>
Str_SomeDescription == <<"S","o","m","e"," ","d","e","s","c","r","i","p","t","i","o","n">>
Str_ABC1 == <<"A","B","C","1">>
Str_DEF1 == <<"D","E","F","1">>
Str_GHI1 == <<"G","H","I","1">>

----------------------------------------------------------------------------
(* Properties of get_kegg_genes, checked under Spec *)

\* C1: a line yields an entry if and only if the section flag is true when
\* it is processed, it contains a semicolon, and what precedes its first
\* semicolon holds at least two whitespace-delimited tokens.
C1_EmitIffQualifies ==
    Stepped =>
        ((emitted = "entry") <=>
            /\ is_gene_section
            /\ Contains(DataPart(lines[idx]), ";")
            /\ TokenCount(Before(DataPart(lines[idx]), <<";">>)) >= 2)

\* C2: the loop never raises: every retrieved text is parsed to the end and
\* malformed lines are skipped.
C2_NeverRaises == pc # "raised"

\* C3: the Description of an entry is all that follows the first "; " of
\* its line, trimmed, later "; " separators included.
C3_DescriptionIsRemainder ==
    (Stepped /\ emitted = "entry") =>
        LastEntry.Description = Trim(After(line, SemiSpace))

\* C4 as stated: the Symbol of an entry is the first comma-separated alias
\* of the text after the identifier token of the head segment, trimmed; the
\* line "GENE  1234  SYM1, SYM2; Some description" gives SYM1 and
\* "Some description".
C4_SymbolIsFirstAlias ==
    (Stepped /\ emitted = "entry") =>
        /\ LastEntry.Symbol =
              Trim(Before(AfterFirstToken(Before(line, SemiSpace)), <<",">>))
        /\ lines[idx] = SymLine =>
              /\ LastEntry.Symbol = Str_SYM1
              /\ LastEntry.Description = Str_SomeDescription

\* C4 amended: the Symbol of an entry is that first alias, trimmed and
\* converted to upper case; the example line gives SYM1 and
\* "Some description".
C4_SymbolIsFirstAliasUpper ==
    (Stepped /\ emitted = "entry") =>
        /\ LastEntry.Symbol =
              Upper(Trim(Before(AfterFirstToken(Before(line, SemiSpace)), <<",">>)))
        /\ lines[idx] = SymLine =>
              /\ LastEntry.Symbol = Str_SYM1
              /\ LastEntry.Description = Str_SomeDescription

\* an entry with an alias list and a lower-case first alias has been emitted
C4_Witness ==
    /\ Stepped /\ emitted = "entry"
    /\ lines[idx] = GenePrefix \o Body2
    /\ LastEntry.Symbol = <<"B">>

\* line j lies in an open section: some GENE line at or before it has no
\* COMPOUND or REFERENCE line between itself and j
InSectionAt(j) ==
    \E g \in 1..j :
        /\ StartsWith(lines[g], GENE)
        /\ \A h \in (g + 1)..j : ~Closes(lines[h])

\* the entries of the first n lines that lie in an open section and yield
\* an entry there, in line order
EntriesUpTo(n) ==
    LET hits == SelectSeq([j \in 1..n |-> j],
                          LAMBDA j : InSectionAt(j) /\ ParseLine(TRUE, lines[j]).out = "entry")
    IN  [m \in 1..Len(hits) |-> ParseLine(TRUE, lines[hits[m]]).entry]

C8_OnlyLeadingLabelRemoved ==
    LET raw == lines[idx]
        L == DataPart(raw)
    IN  (/\ Stepped
         /\ StartsWith(raw, GENE) /\ Len(raw) > Len(GENE) /\ raw[Len(GENE) + 1] \in Whitespace
         /\ ~StartsWith(L, GENE) /\ ~Closes(L)) =>
            /\ emitted = ParseLine(TRUE, L).out
            /\ emitted = "entry" => LastEntry = ParseLine(TRUE, L).entry

----------------------------------------------------------------------------
(* Properties of the pipeline, checked under PipeSpec *)

AfterInteractions ==
    ppc \in {"overlay", "network", "edges", "rendered", "raised_overlay", "raised_edge"}

\* C6: an error of the interaction source gives an empty list, and the run
\* goes on to a rendered network without edges instead of an error state.
C6_InteractionErrorDegrades ==
    string_reply.kind # "list" =>
        /\ AfterInteractions => interactions = <<>>
        /\ ppc \notin {"raised_overlay", "raised_edge"}
        /\ ppc = "rendered" => (G_edges = {} /\ shown.edges = 0)

\* C7: a malformed overlay file ends the run in a handled error state, not
\* in an exception nobody catches.
C7_MalformedOverlayHandled ==
    uploaded_file.kind \in {"unreadable", "no_symbol", "no_logfc"} =>
        ppc # "raised_overlay"

\* the symbols of df whose first occurrence has fewer than GeneCap distinct
\* symbols before it
FirstDistinct(df) ==
    {df[i].Symbol : i \in {j \in 1..Len(df) :
        Cardinality({df[h].Symbol : h \in 1..(j - 1)} \ {df[j].Symbol}) < GeneCap}}

\* C9: once the nodes are built the node set is the set of the first at most
\* 50 distinct parsed symbols and is not empty, the interaction records add
\* no node, and every edge joins two nodes and comes from a processed record
\* whose score reaches the threshold.
C9_NodesAndEdges ==
    ppc \in {"edges", "rendered", "raised_edge"} =>
        /\ G_nodes = FirstDistinct(df_kegg)
        /\ G_nodes # {}
        /\ Cardinality(G_nodes) <= GeneCap
        /\ \A e \in G_edges :
              /\ e \subseteq G_nodes
              /\ \E j \in 1..k :
                    /\ interactions[j].has_score
                    /\ interactions[j].score >= confidence
                    /\ e = {Upper(interactions[j].preferredName_A),
                            Upper(interactions[j].preferredName_B)}

\* a network was rendered from more than 50 distinct symbols with an edge,
\* after a record naming a symbol past the cap was passed over
C9_Witness ==
    /\ ppc = "rendered"
    /\ Cardinality(Range(SymbolsOf(df_kegg))) > GeneCap
    /\ Cardinality(G_nodes) = GeneCap
    /\ G_edges # {}
    /\ \E j \in 1..Len(interactions) :
          /\ interactions[j].score >= confidence
          /\ Upper(interactions[j].preferredName_B) \notin G_nodes

\* C10: the "Validated Edges" figure shown equals the number of edges of
\* the graph that is drawn.
C10_ShownEdgesEqualGraphEdges ==
    ppc = "rendered" => shown.edges = Cardinality(G_edges)

====
